---- MODULE Spec2Model ----
(***************************************************************************)
(* Model of pkg/decrypt/decypt_windows.go: DecryptProtectedSettings and    *)
(* its helpers thumbprintStringToHex, getCertificateThumbprint and         *)
(* decryptDataWithCert.  The trust-store provider (crypt32) is the         *)
(* environment: each native call is a step whose outcome is chosen from    *)
(* the outcomes the call can return.                                       *)
(*                                                                         *)
(* Handles: a certificate context is the position of the entry in the     *)
(* store (1..Len(store)); 0 is the nil context.  The store handle is 0     *)
(* (null) or 1.  A string is a sequence of runes, a []byte a sequence of   *)
(* numbers in 0..255.                                                      *)
(***************************************************************************)
EXTENDS Integers, Sequences, FiniteSets, TLC

\* ------------------------------------------------------------------ bounds
MaxStore == 2
MaxCipherLen == 1
MaxPlain == 2
MaxCodecLen == 3
MaxCodecBytes == 2

\* ------------------------------------------------------- program constants
\* An error code is written as the signed 32-bit number with the same bits:
\* 0x8009310B (2148086027) is -2146881269, 0x80092004 is -2146885628.
certHashPropID == 3
crypteEAsn1BadTag == -2146881269
crypteENotFound == -2146885628

\* ------------------------------------------------------------ error values
\* A Go error value: nil, a syscall.Errno with its code, or an error of
\* another dynamic type.
ErrNil == [kind |-> "nil", code |-> 0]
Errno(c) == [kind |-> "errno", code |-> c]
ErrOther == [kind |-> "other", code |-> 0]

\* Native error codes the provider may report besides the two the code names
\* (5 = ERROR_ACCESS_DENIED, 0x8009200C = CRYPT_E_NO_DECRYPT_CERT, 0 when the
\* failing call set no code).
NativeErrnos == {crypteENotFound, crypteEAsn1BadTag, 5, -2146885620, 0}

\* --------------------------------------------------------- thumbprint codec
\* Variant of HexVal: the letters are not digits.
HexValDecimal(c) ==
  CASE c = "0" -> 0  [] c = "1" -> 1  [] c = "2" -> 2  [] c = "3" -> 3
    [] c = "4" -> 4  [] c = "5" -> 5  [] c = "6" -> 6  [] c = "7" -> 7
    [] c = "8" -> 8  [] c = "9" -> 9
    [] OTHER -> -1

\* Variant of HexVal: the capital letters are not digits.
HexValLowerCase(c) ==
  CASE c = "0" -> 0  [] c = "1" -> 1  [] c = "2" -> 2  [] c = "3" -> 3
    [] c = "4" -> 4  [] c = "5" -> 5  [] c = "6" -> 6  [] c = "7" -> 7
    [] c = "8" -> 8  [] c = "9" -> 9
    [] c = "a" -> 10 [] c = "b" -> 11 [] c = "c" -> 12 [] c = "d" -> 13
    [] c = "e" -> 14 [] c = "f" -> 15
    [] OTHER -> -1

\* Value of one rune as a base-16 digit, -1 when it is none.
HexVal(c) ==
  CASE c = "0" -> 0  [] c = "1" -> 1  [] c = "2" -> 2  [] c = "3" -> 3
    [] c = "4" -> 4  [] c = "5" -> 5  [] c = "6" -> 6  [] c = "7" -> 7
    [] c = "8" -> 8  [] c = "9" -> 9
    [] c = "a" -> 10 [] c = "b" -> 11 [] c = "c" -> 12 [] c = "d" -> 13
    [] c = "e" -> 14 [] c = "f" -> 15
    [] c = "A" -> 10 [] c = "B" -> 11 [] c = "C" -> 12 [] c = "D" -> 13
    [] c = "E" -> 14 [] c = "F" -> 15
    [] OTHER -> -1

\* strconv.ParseUint(sp, 16, 16): every rune must be a base-16 digit, the
\* string must not be empty and the value must fit in 16 bits.
RECURSIVE ParseAcc(_, _)
ParseAcc(sp, acc) ==
  IF sp = <<>> THEN [val |-> acc, err |-> FALSE]
  ELSE IF HexVal(Head(sp)) < 0 THEN [val |-> 0, err |-> TRUE]
  ELSE IF acc * 16 + HexVal(Head(sp)) >= 65536 THEN [val |-> 65535, err |-> TRUE]
  ELSE ParseAcc(Tail(sp), acc * 16 + HexVal(Head(sp)))

ParseUint16(sp) ==
  IF sp = <<>> THEN [val |-> 0, err |-> TRUE] ELSE ParseAcc(sp, 0)

\* The byte stored for one pair: byte(bp) when the pair parses, else the zero
\* the buffer was made with.
PairByte(sp) ==
  IF ParseUint16(sp).err THEN 0 ELSE ParseUint16(sp).val % 256

\* Variant of EffectiveRunes: the last rune is dropped, not the first.
EffectiveRunesDropLast(s) ==
  IF Len(s) % 2 = 1 THEN SubSeq(s, 1, Len(s) - 1) ELSE s

\* The runes that are decoded: the first is dropped when the count is odd.
EffectiveRunes(s) == IF Len(s) % 2 = 1 THEN Tail(s) ELSE s

thumbprintStringToHex(s) ==
  LET runes == EffectiveRunes(s)
      length == Len(runes) \div 2
  IN [val |-> [count \in 1..length |->
                 PairByte(SubSeq(runes, 2 * count - 1, 2 * count))],
      err |-> ErrNil]


\* bytes.Compare(a, b): -1, 0 or 1 by lexicographic order.
RECURSIVE BytesCompare(_, _)
BytesCompare(a, b) ==
  IF a = <<>> /\ b = <<>> THEN 0
  ELSE IF a = <<>> THEN -1
  ELSE IF b = <<>> THEN 1
  ELSE IF Head(a) < Head(b) THEN -1
  ELSE IF Head(a) > Head(b) THEN 1
  ELSE BytesCompare(Tail(a), Tail(b))

\* ------------------------------------------------------------------- inputs
\* Thumbprint strings the caller may pass (sequences of runes).
ThumbprintStrings ==
  { <<>>, <<"g">>, <<"a", "A">>, <<"A", "a">>, <<"a", "g">>, <<"g", "a", "a">> }

\* Hash property values an entry of the store may carry.
Hashes == { <<170>>, <<0>> }

\* One entry of the store, by how its thumbprint property query behaves:
\* "fail1" the size query fails, "zero" it reports size 0, "fail2" the size
\* query succeeds and the fetch fails, "ok" both succeed and yield hash.
CertEntries ==
  { [prop |-> "fail1", hash |-> <<>>], [prop |-> "zero", hash |-> <<>>],
    [prop |-> "fail2", hash |-> <<170>>] }
  \cup { [prop |-> "ok", hash |-> h] : h \in Hashes }

Stores == UNION { [1..n -> CertEntries] : n \in 0..MaxStore }

\* The ciphertext: its length in bytes and the store position of the
\* certificate it was enveloped against (0: no certificate of the store).
Ciphertexts == [len : 0..MaxCipherLen, rcpt : 0..MaxStore]

\* Bytes a decrypted plaintext is made of: "{" and "}".
PlainBytes == {123, 125}

VARIABLES
  thumbprint,         \* parameter thumbprint
  decoded,            \* parameter decoded
  store,              \* the MY store of the local machine
  pc,                 \* position in DecryptProtectedSettings
  handle,             \* the store handle
  deferred,           \* the deferred CertCloseStore is registered
  decodedThumbprint,  \* the target thumbprint
  cert,               \* cert declared at line 53
  certLoop,           \* cert declared at line 58, scoped to the loop body
  prevContext,        \* the enumeration cursor
  found,
  certArg,            \* the cert parameter of decryptDataWithCert
  para,               \* cryptDecryptMessagePara
  cbDecryptedBlob,
  buffer,             \* the buffer made at line 160 (<<>> when none)
  decryptedBytes,     \* what decryptDataWithCert returned
  ret,                \* what DecryptProtectedSettings returns
  calls,              \* the native calls issued so far, in order, each
                      \* with the store handle it is given (0: none), its
                      \* argument, its result and its error
  live,               \* the certificate contexts obtained and not freed
  codec               \* a call of thumbprintStringToHex on its own

vars == << thumbprint, decoded, store, pc, handle, deferred, decodedThumbprint,
           cert, certLoop, prevContext, found, certArg, para, cbDecryptedBlob,
           buffer, decryptedBytes, ret, calls, live, codec >>

Call(op, h, arg, res, err) ==
  [op |-> op, h |-> h, arg |-> arg, res |-> res, err |-> err]

NoPara == [cbSize |-> 0, cCertStore |-> 0, rghCertStore |-> "0", dwFlags |-> 0]
NoRet == [v |-> "nil", err |-> "pending"]
NilBytes == [nil |-> TRUE, val |-> <<>>]
NoCodec == [pc |-> "none", from |-> "none", s |-> <<>>, b |-> <<>>, out |-> <<>>,
            err |-> ErrNil]

Init ==
  /\ thumbprint \in ThumbprintStrings
  /\ decoded \in Ciphertexts
  /\ store \in Stores
  /\ pc = "open"
  /\ handle = 0
  /\ deferred = FALSE
  /\ decodedThumbprint = <<>>
  /\ cert = 0
  /\ certLoop = 0
  /\ prevContext = 0
  /\ found = FALSE
  /\ certArg = 0
  /\ para = NoPara
  /\ cbDecryptedBlob = 0
  /\ buffer = <<>>
  /\ decryptedBytes = NilBytes
  /\ ret = NoRet
  /\ calls = <<>>
  /\ live = {}
  /\ codec = NoCodec

\* Variant of ReturnPc: the close is not deferred, a return leaves at once.
ReturnPcNoDefer(isDeferred) == "done"

\* A return statement: the deferred close, when registered, runs before the
\* function is left.
ReturnPc(isDeferred) == IF isDeferred THEN "defer" ELSE "done"

\* ---------------------------------------------------------- CertOpenStore
\* Variant of OpenStoreError: the test for the null handle is missing.
OpenStoreErrorNoNullCheck(h, err) ==
  IF err # ErrNil THEN "StoreOpenError" ELSE "nil"

\* What lines 37-42 make of the open call's results.
OpenStoreError(h, err) ==
  IF err # ErrNil THEN "StoreOpenError"
  ELSE IF h = 0 THEN "ErrMustRunAsAdmin"
  ELSE "nil"

\* Lines 36-49: open the store, register the close, decode the thumbprint.
OpenStore ==
  /\ pc = "open"
  /\ \E h \in {0, 1}, err \in {ErrNil, Errno(5)} :
       /\ calls' = Append(calls, Call("CertOpenStore", 0, 0, h, err))
       /\ handle' = h
       /\ IF OpenStoreError(h, err) # "nil"
          THEN /\ ret' = [v |-> "nil", err |-> OpenStoreError(h, err)]
               /\ pc' = ReturnPc(deferred)
               /\ UNCHANGED << deferred, decodedThumbprint >>
          ELSE /\ deferred' = TRUE
               /\ IF thumbprintStringToHex(thumbprint).err # ErrNil
                  THEN /\ ret' = [v |-> "nil", err |-> "InvalidThumbprint"]
                       /\ pc' = ReturnPc(TRUE)
                       /\ UNCHANGED decodedThumbprint
                  ELSE /\ decodedThumbprint' = thumbprintStringToHex(thumbprint).val
                       /\ pc' = "enum"
                       /\ UNCHANGED ret
  /\ UNCHANGED << codec, live, thumbprint, decoded, store, cert, certLoop, prevContext, found,
                  certArg, para, cbDecryptedBlob, buffer, decryptedBytes >>

\* ------------------------------------------- CertEnumCertificatesInStore
\* The results the enumeration call can give for a cursor: the entry after
\* the cursor, or past the last entry the not-found code or a nil context
\* without error; at any point another error.
EnumResults(st, prev) ==
  (IF prev + 1 <= Len(st)
   THEN { [cert |-> prev + 1, err |-> ErrNil] }
   ELSE { [cert |-> 0, err |-> Errno(crypteENotFound)],
          [cert |-> 0, err |-> ErrNil] })
  \cup { [cert |-> 0, err |-> Errno(5)], [cert |-> 0, err |-> ErrOther] }

\* Variant of IsLastCertificate: any error code ends the loop.
IsLastCertificateAnyErrno(err) == err.kind = "errno"

\* Lines 60-61: the error that ends the loop normally.
IsLastCertificate(err) == err.kind = "errno" /\ err.code = crypteENotFound

\* Lines 58-71: one enumeration call and the tests on its results.  The call
\* frees the context passed as the cursor and the context it returns is held.
EnumNext ==
  /\ pc = "enum"
  /\ \E r \in EnumResults(store, prevContext) :
       /\ calls' = Append(calls, Call("CertEnumCertificatesInStore", handle,
                                       prevContext, r.cert, r.err))
       /\ certLoop' = r.cert
       /\ live' = (live \ {prevContext}) \cup ({r.cert} \ {0})
       /\ IF r.err # ErrNil
          THEN IF IsLastCertificate(r.err)
               THEN pc' = "check" /\ UNCHANGED ret
               ELSE /\ ret' = [v |-> "nil", err |-> "EnumError"]
                    /\ pc' = ReturnPc(deferred)
          ELSE IF r.cert = 0
               THEN pc' = "check" /\ UNCHANGED ret
               ELSE pc' = "prop" /\ UNCHANGED ret
  /\ UNCHANGED << codec, thumbprint, decoded, store, handle, deferred,
                  decodedThumbprint, cert, prevContext, found, certArg, para,
                  cbDecryptedBlob, buffer, decryptedBytes >>

\* ---------------------------------------------- getCertificateThumbprint
\* Variant of getCertificateThumbprint: a size of zero gives an empty
\* thumbprint that is not nil.
getCertificateThumbprintEmpty(e) ==
  IF e.prop = "fail1" THEN [nil |-> TRUE, val |-> <<>>, err |-> TRUE, queries |-> 1]
  ELSE IF e.prop = "zero" \/ Len(e.hash) = 0
       THEN [nil |-> FALSE, val |-> <<>>, err |-> FALSE, queries |-> 1]
  ELSE IF e.prop = "fail2" THEN [nil |-> TRUE, val |-> <<>>, err |-> TRUE, queries |-> 2]
  ELSE [nil |-> FALSE, val |-> e.hash, err |-> FALSE, queries |-> 2]

\* Lines 185-226 for the entry e: the size query, the zero-size return, the
\* buffer of the reported size and the fetch.  queries is the number of
\* property queries issued.
getCertificateThumbprint(e) ==
  IF e.prop = "fail1" THEN [nil |-> TRUE, val |-> <<>>, err |-> TRUE, queries |-> 1]
  ELSE IF e.prop = "zero" \/ Len(e.hash) = 0
       THEN [nil |-> TRUE, val |-> <<>>, err |-> FALSE, queries |-> 1]
  ELSE IF e.prop = "fail2" THEN [nil |-> TRUE, val |-> <<>>, err |-> TRUE, queries |-> 2]
  ELSE [nil |-> FALSE, val |-> e.hash, err |-> FALSE, queries |-> 2]

\* Variant of ThumbprintMatches: the lengths are compared, not the bytes.
ThumbprintMatchesByLength(target, ft) ==
  /\ ~ft.err
  /\ ~ft.nil
  /\ Len(target) = Len(ft.val)

\* Variant of ThumbprintMatches: the test for a nil thumbprint is missing.
ThumbprintMatchesNilAllowed(target, ft) ==
  /\ ~ft.err
  /\ BytesCompare(target, ft.val) = 0

\* Lines 75-77: the test that makes an entry the match.
ThumbprintMatches(target, ft) ==
  /\ ~ft.err
  /\ ~ft.nil
  /\ BytesCompare(target, ft.val) = 0

\* Variant of NextCursor: the cursor is not advanced.
NextCursorStale(prev, c) == prev

\* Line 83: the cursor of the next enumeration call.
NextCursor(prev, c) == c

\* Lines 74-83: the thumbprint of the enumerated entry and the comparison.
CheckThumbprint ==
  /\ pc = "prop"
  /\ LET ft == getCertificateThumbprint(store[certLoop])
         q1 == Call("CertGetCertificateContextProperty", 0, certLoop,
                    IF ft.queries = 1 /\ ft.err THEN 0 ELSE 1, ErrNil)
         q2 == Call("CertGetCertificateContextProperty", 0, certLoop,
                    IF ft.err THEN 0 ELSE 1, ErrNil)
     IN /\ calls' = calls \o (IF ft.queries = 1 THEN <<q1>> ELSE <<q1, q2>>)
        /\ IF ThumbprintMatches(decodedThumbprint, ft)
           THEN /\ found' = TRUE
                /\ pc' = "check"
                /\ UNCHANGED prevContext
           ELSE /\ prevContext' = NextCursor(prevContext, certLoop)
                /\ pc' = "enum"
                /\ UNCHANGED found
  /\ UNCHANGED << codec, live, thumbprint, decoded, store, handle, deferred, decodedThumbprint,
                  cert, certLoop, certArg, para, cbDecryptedBlob, buffer,
                  decryptedBytes, ret >>

\* Lines 86-88: the test after the loop.
CheckFound ==
  /\ pc = "check"
  /\ IF ~found
     THEN /\ ret' = [v |-> "nil", err |-> "ErrCertWithThumbprintNotFound"]
          /\ pc' = ReturnPc(deferred)
     ELSE /\ pc' = "decrypt1"
          /\ UNCHANGED ret
  /\ UNCHANGED << codec, live, thumbprint, decoded, store, handle, deferred, decodedThumbprint,
                  cert, certLoop, prevContext, found, certArg, para,
                  cbDecryptedBlob, buffer, decryptedBytes, calls >>

\* ------------------------------------------------------ CryptDecryptMessage
\* The results of the size query (lines 136-145).  The call is given the
\* parameters, which name the store, and the ciphertext; no certificate
\* context is among its arguments.  The provider decrypts when the store
\* holds the certificate the message was enveloped against.
DecryptSizeResults(st, ct) ==
  { [raw |-> 0, errno |-> e, cb |-> 0] : e \in NativeErrnos }
  \cup (IF ct.rcpt \in 1..Len(st)
        THEN { [raw |-> 1, errno |-> 0, cb |-> n] : n \in 0..MaxPlain }
        ELSE {})

\* The results of the fill call (lines 164-173) for a buffer of n bytes: the
\* bytes written and the final length.
DecryptFillResults(n) ==
  { [raw |-> 0, errno |-> e, buf |-> [i \in 1..n |-> 123], cb |-> n] :
      e \in NativeErrnos }
  \cup { [raw |-> 1, errno |-> 0, buf |-> b, cb |-> m] :
           b \in [1..n -> PlainBytes], m \in 0..n }

\* Line 129 stores the address of the parameter storeHandle in the uintptr
\* field rghCertStore.  An address held as a uintptr is an integer, not a
\* reference: it is not updated when the goroutine's stack is moved and does
\* not keep the variable, which is not used after line 129, in its slot.  What
\* the provider finds at that address when a call is made is the handle or
\* something else (0).
StoreHandleAt(h) == {h, 0}

\* The store the provider searches for the handle it read: the store that was
\* opened, or none.
ProviderStore(hr, h, st) == IF hr = h THEN st ELSE <<>>

\* Variant of SizeQueryError: the bad-tag code is not told apart.
SizeQueryErrorGeneric(errno) == "DecryptionFailed"

\* Lines 147-152: the error of a failed size query.
SizeQueryError(errno) ==
  IF errno = crypteEAsn1BadTag THEN "ErrInvalidProtectedSettingsData"
  ELSE "DecryptionFailed"

\* Variant of NeedsBuffer: the test for a size of zero is missing.
NeedsBufferAlways(cb) == TRUE

\* Line 156: a buffer is made and filled only for a size other than zero.
NeedsBuffer(cb) == cb # 0

\* Lines 91 and 124-158: the call of decryptDataWithCert up to the return
\* for a zero size.  &decoded[0] panics for a ciphertext of no bytes.
DecryptSizeQuery ==
  /\ pc = "decrypt1"
  /\ certArg' = cert
  /\ para' = [cbSize |-> decoded.len, cCertStore |-> 1,
              rghCertStore |-> "&storeHandle", dwFlags |-> 0]
  /\ IF decoded.len = 0
     THEN /\ ret' = [v |-> "nil", err |-> "panic"]
          /\ pc' = ReturnPc(deferred)
          /\ UNCHANGED << calls, cbDecryptedBlob, decryptedBytes >>
     ELSE \E hr \in StoreHandleAt(handle) :
          \E r \in DecryptSizeResults(ProviderStore(hr, handle, store), decoded) :
            /\ calls' = Append(calls, Call("CryptDecryptMessage", hr, 0, r.cb,
                                       IF r.raw = 0 THEN Errno(r.errno) ELSE ErrNil))
            /\ cbDecryptedBlob' = r.cb
            /\ IF r.raw = 0
               THEN /\ ret' = [v |-> "nil", err |-> SizeQueryError(r.errno)]
                    /\ pc' = ReturnPc(deferred)
                    /\ UNCHANGED decryptedBytes
               ELSE IF ~NeedsBuffer(r.cb)
                    THEN /\ decryptedBytes' = NilBytes
                         /\ pc' = "unmarshal"
                         /\ UNCHANGED ret
                    ELSE /\ pc' = "decrypt2"
                         /\ UNCHANGED << ret, decryptedBytes >>
  /\ UNCHANGED << codec, live, thumbprint, decoded, store, handle, deferred, decodedThumbprint,
                  cert, certLoop, prevContext, found, buffer >>

\* Variant of ReturnedBytes: the buffer is returned whole.
ReturnedBytesWhole(buf, cb) == buf

\* Line 179: the buffer cut to the length the fill call reported.
ReturnedBytes(buf, cb) == SubSeq(buf, 1, cb)

\* Lines 160-181: the buffer, the fill call and the truncation.
\* &decryptedBytes[0] panics for a buffer of no bytes.
DecryptFill ==
  /\ pc = "decrypt2"
  /\ IF cbDecryptedBlob = 0
     THEN /\ ret' = [v |-> "nil", err |-> "panic"]
          /\ pc' = ReturnPc(deferred)
          /\ UNCHANGED << calls, cbDecryptedBlob, buffer, decryptedBytes >>
     ELSE \E hr \in StoreHandleAt(handle) :
          \E r \in { x \in DecryptFillResults(cbDecryptedBlob) :
                       hr = handle \/ x.raw = 0 } :
            /\ calls' = Append(calls, Call("CryptDecryptMessage", hr,
                                       cbDecryptedBlob, r.cb,
                                       IF r.raw = 0 THEN Errno(r.errno) ELSE ErrNil))
            /\ buffer' = r.buf
            /\ cbDecryptedBlob' = r.cb
            /\ IF r.raw = 0
               THEN /\ ret' = [v |-> "nil", err |-> "DecryptionFailed"]
                    /\ pc' = ReturnPc(deferred)
                    /\ UNCHANGED decryptedBytes
               ELSE /\ decryptedBytes' = [nil |-> FALSE, val |-> ReturnedBytes(r.buf, r.cb)]
                    /\ pc' = "unmarshal"
                    /\ UNCHANGED ret
  /\ UNCHANGED << codec, live, thumbprint, decoded, store, handle, deferred, decodedThumbprint,
                  cert, certLoop, prevContext, found, certArg, para >>

\* ----------------------------------------------------------- json.Unmarshal
\* json.Unmarshal into a map[string]interface{}, for texts over PlainBytes:
\* "{}" is the one such text that is a JSON value; the empty text is none.
JsonUnmarshal(data) ==
  IF data = <<123, 125>> THEN [v |-> "map", err |-> "nil"]
  ELSE [v |-> "nil", err |-> "JsonError"]

\* Variant of UnmarshalResult: an empty plaintext is returned as no mapping
\* and no error, without deserializing it.
UnmarshalResultSkipEmpty(db) ==
  IF db.val = <<>> THEN [v |-> "nil", err |-> "nil"] ELSE JsonUnmarshal(db.val)

\* Lines 97-99: what is returned for the bytes decryptDataWithCert gave.
UnmarshalResult(db) == JsonUnmarshal(db.val)

\* Lines 96-99: deserialize and return.
Deserialize ==
  /\ pc = "unmarshal"
  /\ ret' = UnmarshalResult(decryptedBytes)
  /\ pc' = ReturnPc(deferred)
  /\ UNCHANGED << codec, live, thumbprint, decoded, store, handle, deferred, decodedThumbprint,
                  cert, certLoop, prevContext, found, certArg, para,
                  cbDecryptedBlob, buffer, decryptedBytes, calls >>

\* ----------------------------------------------------------- CertCloseStore
\* Line 43: the deferred close, run when the function returns or panics.
CloseStore ==
  /\ pc = "defer"
  /\ calls' = Append(calls, Call("CertCloseStore", handle, 0, 1, ErrNil))
  /\ pc' = "done"
  /\ UNCHANGED << codec, live, thumbprint, decoded, store, handle, deferred, decodedThumbprint,
                  cert, certLoop, prevContext, found, certArg, para,
                  cbDecryptedBlob, buffer, decryptedBytes, ret >>

Next ==
  \/ OpenStore
  \/ EnumNext
  \/ CheckThumbprint
  \/ CheckFound
  \/ DecryptSizeQuery
  \/ DecryptFill
  \/ Deserialize
  \/ CloseStore

Spec == Init /\ [][Next]_vars

\* ------------------------------------------------ thumbprintStringToHex alone
\* The codec called on its own: on a string, or on the hexadecimal text of a
\* byte sequence (written with small or with capital letters).
CodecChars == {"0", "1", "9", "a", "F", "g", "x"}
CodecStrings == UNION { [1..n -> CodecChars] : n \in 0..MaxCodecLen }
CodecByteValues == {0, 9, 10, 26, 161, 255}
CodecByteSeqs == UNION { [1..n -> CodecByteValues] : n \in 0..MaxCodecBytes }

SmallDigits ==
  << "0", "1", "2", "3", "4", "5", "6", "7", "8", "9", "a", "b", "c", "d", "e", "f" >>
CapitalDigits ==
  << "0", "1", "2", "3", "4", "5", "6", "7", "8", "9", "A", "B", "C", "D", "E", "F" >>

\* The hexadecimal text of a byte sequence: two digits a byte.
RECURSIVE HexEncode(_, _)
HexEncode(b, digits) ==
  IF b = <<>> THEN <<>>
  ELSE << digits[(Head(b) \div 16) + 1], digits[(Head(b) % 16) + 1] >>
       \o HexEncode(Tail(b), digits)

CodecInit ==
  /\ codec \in { [pc |-> "decode", from |-> "string", s |-> s, b |-> <<>>,
                   out |-> <<>>, err |-> ErrNil] : s \in CodecStrings }
              \cup { [pc |-> "encode", from |-> f, s |-> <<>>, b |-> b,
                      out |-> <<>>, err |-> ErrNil] :
                        f \in {"small", "capital"}, b \in CodecByteSeqs }
  /\ thumbprint = <<>>
  /\ decoded = [len |-> 0, rcpt |-> 0]
  /\ store = <<>>
  /\ pc = "idle"
  /\ handle = 0
  /\ deferred = FALSE
  /\ decodedThumbprint = <<>>
  /\ cert = 0
  /\ certLoop = 0
  /\ prevContext = 0
  /\ found = FALSE
  /\ certArg = 0
  /\ para = NoPara
  /\ cbDecryptedBlob = 0
  /\ buffer = <<>>
  /\ decryptedBytes = NilBytes
  /\ ret = NoRet
  /\ calls = <<>>
  /\ live = {}

pipelineVars ==
  << thumbprint, decoded, store, pc, handle, deferred, decodedThumbprint, cert,
     certLoop, prevContext, found, certArg, para, cbDecryptedBlob, buffer,
     decryptedBytes, ret, calls, live >>

\* The byte sequence is written as hexadecimal text.
CodecEncode ==
  /\ codec.pc = "encode"
  /\ codec' = [codec EXCEPT
                 !.pc = "decode",
                 !.s = HexEncode(codec.b, IF codec.from = "small"
                                          THEN SmallDigits ELSE CapitalDigits)]
  /\ UNCHANGED pipelineVars

\* Lines 102-121: thumbprintStringToHex(s).
CodecDecode ==
  /\ codec.pc = "decode"
  /\ codec' = [codec EXCEPT
                 !.pc = "decoded",
                 !.out = thumbprintStringToHex(codec.s).val,
                 !.err = thumbprintStringToHex(codec.s).err]
  /\ UNCHANGED pipelineVars

CodecNext ==
  \/ CodecEncode
  \/ CodecDecode

SpecCodec == CodecInit /\ [][CodecNext]_vars

\* =================================================================== claims
\* The positions in calls of the calls of one native operation.
CallsTo(op) == { i \in 1..Len(calls) : calls[i].op = op }

EnumCalls == CallsTo("CertEnumCertificatesInStore")
PropCalls == CallsTo("CertGetCertificateContextProperty")
DecryptCalls == CallsTo("CryptDecryptMessage")
CloseCalls == CallsTo("CertCloseStore")

Least(S) == CHOOSE i \in S : \A j \in S : i <= j

\* The resolver loop has been left by a break: by a match or by the
\* end-of-entries signal, not by a return.
LoopLeft == pc \in {"check", "decrypt1", "decrypt2", "unmarshal"}
            \/ (pc \in {"defer", "done"}
                /\ ret.err \notin {"StoreOpenError", "ErrMustRunAsAdmin",
                                   "InvalidThumbprint", "EnumError"})

\* The thumbprint computed for an entry, as a byte sequence: the fetched hash,
\* the empty sequence for a reported size of zero; none when a query fails.
HasComputedThumbprint(e) == e.prop \in {"ok", "zero"}
ComputedThumbprint(e) == IF e.prop = "ok" THEN e.hash ELSE <<>>

\* Entries whose computed thumbprint equals the target byte for byte.
EqualEntries ==
  { i \in 1..Len(store) :
      HasComputedThumbprint(store[i]) /\ ComputedThumbprint(store[i]) = decodedThumbprint }

\* Those of them whose thumbprint query reported a size other than zero.
EqualNonEmptyEntries == { i \in EqualEntries : store[i].prop = "ok" }

\* What C1 asserts of a set M of candidate entries once the loop is left.
StoppedAtFirstOf(M) ==
  (LoopLeft /\ M # {}) =>
     /\ found
     /\ certLoop = Least(M)
     /\ Cardinality(EnumCalls) = Least(M)
     /\ \A i \in EnumCalls : calls[i].res <= Least(M)

\* C1 (as stated): when the enumeration raises no error but end-of-entries and
\* some entry's computed thumbprint equals the target byte for byte, the loop
\* ends with found = true at the first such entry, with no enumeration call
\* after it.
C1_Original == StoppedAtFirstOf(EqualEntries)

\* C1 (amended): the same for the entries whose thumbprint query reported a
\* size other than zero: when some such entry's thumbprint equals the target,
\* the loop ends with found = true at the first of them, with no enumeration
\* call after it.
C1_FirstMatchFound == StoppedAtFirstOf(EqualNonEmptyEntries)

\* The match is the second entry of the store, the first one differing.
C1_Witness ==
  /\ pc = "check"
  /\ found
  /\ certLoop = 2
  /\ store[1].prop = "ok"
  /\ EqualNonEmptyEntries # {}

\* C2: when the enumeration ends with the end-of-entries signal and the
\* thumbprint of no entry equals the target, DecryptProtectedSettings returns
\* ErrCertWithThumbprintNotFound and the decrypt call is never issued.  (The
\* entries counted are those whose query reported a size other than zero, so
\* the premise is the weaker one and the statement the stronger.)
C2_NotFound ==
  (LoopLeft /\ EqualNonEmptyEntries = {}) =>
     /\ ~found
     /\ DecryptCalls = {}
     /\ pc \in {"check", "defer", "done"}
     /\ pc # "check" => ret = [v |-> "nil", err |-> "ErrCertWithThumbprintNotFound"]

\* A store of entries none of which matches has been enumerated to its end and
\* the function has returned.
C2_Witness ==
  /\ pc = "done"
  /\ Len(store) >= 1
  /\ EqualNonEmptyEntries = {}
  /\ Cardinality(EnumCalls) = Len(store) + 1
  /\ ret.err = "ErrCertWithThumbprintNotFound"

\* C3: a ciphertext enveloped against a certificate other than the one the
\* thumbprint identifies never yields a decoded mapping: the call fails.
\* (The claim names the two errors it may fail with; this is the part of it
\* that holds of any failure.)
C3_WrongCertificateFails ==
  (pc = "done" /\ found /\ decoded.len > 0 /\ decoded.rcpt # certLoop) =>
     (ret.v = "nil" /\ ret.err # "nil")

\* C4: the certificate handed to decryptDataWithCert is the matched entry,
\* never the nil context.
C4_MatchedCertHandedOver ==
  (found /\ pc \in {"decrypt2", "unmarshal", "defer", "done"}) =>
     (certArg # 0 /\ certArg = certLoop)

\* The open call returned a handle other than null without error.
OpenedStore ==
  /\ Len(calls) >= 1
  /\ calls[1].err = ErrNil
  /\ calls[1].res # 0

\* C5: when the store was opened, it is closed exactly once before the
\* function returns, on every exit path, and with the handle that was opened;
\* nothing is called after the close.
C5_ClosedOnce ==
  OpenedStore =>
     /\ Cardinality(CloseCalls) = (IF pc = "done" THEN 1 ELSE 0)
     /\ \A i \in CloseCalls : i = Len(calls) /\ calls[i].h = calls[1].res

\* The function has returned after a failed decryption and the store is
\* closed.
C5_Witness ==
  /\ pc = "done"
  /\ OpenedStore
  /\ ret.err = "DecryptionFailed"
  /\ Cardinality(DecryptCalls) = 2
  /\ Cardinality(CloseCalls) = 1

\* C6: a null handle without error gives ErrMustRunAsAdmin, an error of the
\* open call gives the store-open error whatever the handle; in both cases the
\* open call is the only native call.
C6_OpenFailures ==
  (Len(calls) >= 1 /\ ~OpenedStore) =>
     /\ pc = "done"
     /\ calls = << calls[1] >>
     /\ ret.v = "nil"
     /\ ret.err = (IF calls[1].err # ErrNil THEN "StoreOpenError"
                   ELSE "ErrMustRunAsAdmin")

\* The open call gave a null handle and no error.
C6_Witness ==
  /\ pc = "done"
  /\ Len(calls) = 1
  /\ calls[1].err = ErrNil
  /\ calls[1].res = 0
  /\ ret.err = "ErrMustRunAsAdmin"

\* The size queries of decryptDataWithCert: the decrypt calls given no buffer.
SizeQueries == { i \in DecryptCalls : calls[i].arg = 0 }

\* C7: a failed size query gives ErrInvalidProtectedSettingsData exactly when
\* the native code is the ASN.1 bad-tag code and the decryption failure for
\* any other code; the fill call is not issued and no plaintext is returned.
C7_SizeQueryFailure ==
  \A i \in SizeQueries :
     calls[i].err # ErrNil =>
        /\ DecryptCalls = {i}
        /\ pc \in {"defer", "done"}
        /\ buffer = <<>>
        /\ decryptedBytes = NilBytes
        /\ ret.v = "nil"
        /\ (ret.err = "ErrInvalidProtectedSettingsData")
              <=> (calls[i].err.code = -2146881269)
        /\ (ret.err = "DecryptionFailed")
              <=> (calls[i].err.code # -2146881269)

\* The size query failed with the bad-tag code and the function has returned.
C7_Witness ==
  /\ pc = "done"
  /\ ret.err = "ErrInvalidProtectedSettingsData"
  /\ \E i \in SizeQueries : calls[i].err = Errno(crypteEAsn1BadTag)

\* The size query succeeded and reported a plaintext length of zero.
ZeroSizeReported ==
  \E i \in SizeQueries : calls[i].err = ErrNil /\ calls[i].res = 0

\* C8: when the size query succeeds with a length of zero, decryptDataWithCert
\* returns an empty plaintext and no error, makes no buffer and does not issue
\* the fill call.
C8_ZeroSizeEmptyPlaintext ==
  ZeroSizeReported =>
     /\ Cardinality(DecryptCalls) = 1
     /\ buffer = <<>>
     /\ decryptedBytes.val = <<>>
     /\ pc \in {"unmarshal", "defer", "done"}
     /\ ret.err \notin {"ErrInvalidProtectedSettingsData", "DecryptionFailed", "panic"}

\* decryptDataWithCert has just returned after a size query that reported zero.
C8_Witness ==
  /\ pc = "unmarshal"
  /\ ZeroSizeReported
  /\ decryptedBytes = NilBytes

\* C9 (as stated): with the certificate found and a decrypted size of zero,
\* DecryptProtectedSettings returns an empty result and no error.
C9_Original ==
  (pc = "done" /\ found /\ ZeroSizeReported) => ret.err = "nil"

\* C9 (amended): with the certificate found and a decrypted size of zero,
\* DecryptProtectedSettings returns a nil mapping together with the error
\* json.Unmarshal gives for the empty plaintext.
C9_ZeroSizeDeserializationError ==
  (pc = "done" /\ found /\ ZeroSizeReported) =>
     ret = [v |-> "nil", err |-> "JsonError"]

\* The function has returned after a size query that reported zero.
C9_Witness ==
  /\ pc = "done"
  /\ found
  /\ ZeroSizeReported
  /\ Cardinality(CloseCalls) = 1

\* C10: the not-found code is the one enumeration error that ends the loop
\* normally; after any other enumeration error the function returns the
\* enumeration failure, and the only call that follows is the deferred close.
C10_EnumerationErrors ==
  \A i \in EnumCalls :
     calls[i].err # ErrNil =>
        IF calls[i].err.kind = "errno" /\ calls[i].err.code = -2146885628
        THEN /\ ret.err # "EnumError"
             /\ pc # "enum" /\ pc # "prop"
             /\ \A j \in EnumCalls : j <= i
        ELSE /\ pc \in {"defer", "done"}
             /\ ret = [v |-> "nil", err |-> "EnumError"]
             /\ \A j \in (i + 1)..Len(calls) : calls[j].op = "CertCloseStore"

\* An enumeration call after the first failed with an error other than the
\* not-found code and the function has returned.
C10_Witness ==
  /\ pc = "done"
  /\ ret.err = "EnumError"
  /\ Cardinality(EnumCalls) >= 2
  /\ \E i \in EnumCalls : calls[i].err = Errno(5)

\* The value of a rune that is a hexadecimal digit, by its place among the
\* digits.
IsHexDigit(c) == \E i \in 1..16 : SmallDigits[i] = c \/ CapitalDigits[i] = c
DigitValue(c) == (CHOOSE i \in 1..16 : SmallDigits[i] = c \/ CapitalDigits[i] = c) - 1

\* The reference of C11 for a string s.
ReferenceRunes(s) == IF Len(s) % 2 = 1 THEN SubSeq(s, 2, Len(s)) ELSE s
ReferenceByte(c1, c2) ==
  IF IsHexDigit(c1) /\ IsHexDigit(c2) THEN 16 * DigitValue(c1) + DigitValue(c2) ELSE 0
ReferenceDecode(s) ==
  LET e == ReferenceRunes(s)
  IN [i \in 1..(Len(e) \div 2) |-> ReferenceByte(e[2 * i - 1], e[2 * i])]

\* C11: thumbprintStringToHex agrees with the reference for every string: no
\* error, floor(len(e)/2) bytes for e the string without its first rune when
\* the length is odd, byte i the value of pair i when both runes are
\* hexadecimal digits and 0 otherwise.
C11_CodecReference ==
  codec.pc = "decoded" =>
     /\ codec.err = ErrNil
     /\ Len(codec.out) = Len(ReferenceRunes(codec.s)) \div 2
     /\ codec.out = ReferenceDecode(codec.s)

\* A string of odd length with a pair that is no hexadecimal number has been
\* decoded.
C11_Witness ==
  /\ codec.pc = "decoded"
  /\ codec.s = << "x", "1", "g" >>
  /\ codec.out = << 0 >>

\* C12: thumbprintStringToHex applied to the hexadecimal text of a byte
\* sequence gives back the byte sequence.
C12_RoundTrip ==
  (codec.pc = "decoded" /\ codec.from \in {"small", "capital"}) =>
     codec.out = codec.b

\* A sequence of two bytes has been written with capital letters and decoded.
C12_Witness ==
  /\ codec.pc = "decoded"
  /\ codec.from = "capital"
  /\ codec.b = << 161, 10 >>
  /\ codec.s = << "A", "1", "0", "A" >>
  /\ codec.out = << 161, 10 >>

\* A rune with a capital hexadecimal letter made small.
ToSmall(c) ==
  IF \E i \in 11..16 : CapitalDigits[i] = c
  THEN SmallDigits[CHOOSE i \in 11..16 : CapitalDigits[i] = c]
  ELSE c

\* The target of the thumbprint string written with small letters, and the
\* entries that carry it.
FoldedTarget == ReferenceDecode([i \in 1..Len(thumbprint) |-> ToSmall(thumbprint[i])])
FoldedMatches ==
  { i \in 1..Len(store) : store[i].prop = "ok" /\ store[i].hash = FoldedTarget }

\* C13: what the resolver does is decided by the store and by the thumbprint
\* string with its letters made small, so two strings that differ only in
\* letter case resolve the same entry or both end not found: the target is
\* the one of the small-letter string, and the loop ends at the first entry
\* that carries it, or without a match when none does.
C13_CaseInsensitive ==
  /\ pc \notin {"open", "done", "idle"} => decodedThumbprint = FoldedTarget
  /\ LoopLeft =>
       /\ found <=> (FoldedMatches # {})
       /\ found => certLoop = Least(FoldedMatches)

\* A thumbprint of mixed letter case has found the second entry of the store.
C13_Witness ==
  /\ pc = "check"
  /\ thumbprint = << "a", "A" >>
  /\ found
  /\ certLoop = 2

\* Every native call returns: a step that can be taken is taken.
FairSpec == Spec /\ WF_vars(Next)

\* The enumeration calls in the order they were issued.
EnumSeq == SelectSeq(calls, LAMBDA c : c.op = "CertEnumCertificatesInStore")

\* C14: DecryptProtectedSettings returns for every store and input when every
\* native call returns, the loop issues at most one enumeration call an entry
\* plus one, and no entry is returned by two enumeration calls.
C14_Terminates ==
  /\ <>(pc = "done")
  /\ [](/\ Len(EnumSeq) <= Len(store) + 1
        /\ \A i, j \in 1..Len(EnumSeq) :
             (i < j /\ EnumSeq[i].res # 0) => EnumSeq[i].res < EnumSeq[j].res
                                              \/ EnumSeq[j].res = 0)

\* The function has returned after an enumeration over entries whose
\* thumbprint query fails, reports zero or does not match.
C14_Witness ==
  /\ pc = "done"
  /\ Len(store) = 2
  /\ store[1].prop = "fail2"
  /\ store[2].prop = "zero"
  /\ Len(EnumSeq) = 3
  /\ ret.err = "ErrCertWithThumbprintNotFound"

\* The entries whose thumbprint computation failed or reported a size of
\* zero, once the computation has been made.
SkippedEntries ==
  { k \in 1..Len(store) :
      /\ store[k].prop \in {"fail1", "fail2", "zero"}
      /\ \E i \in PropCalls : calls[i].arg = k }

\* C15: an entry whose thumbprint computation fails in either phase or reports
\* a size of zero is skipped and does not end the pipeline: it is never the
\* match, the next enumeration call is made with it as the cursor, and a
\* later entry whose thumbprint equals the target is still found.
C15_FailedThumbprintSkipped ==
  /\ \A k \in SkippedEntries :
       /\ found => certLoop > k
       /\ \/ pc = "enum" /\ prevContext = k
          \/ \E i \in EnumCalls : calls[i].arg = k
  /\ (LoopLeft /\ \E k \in SkippedEntries : \E j \in EqualNonEmptyEntries : j > k)
        => (found /\ certLoop \in EqualNonEmptyEntries)

\* The first entry's size query failed and the second entry is the match.
C15_Witness ==
  /\ pc = "check"
  /\ found
  /\ certLoop = 2
  /\ 1 \in SkippedEntries
  /\ store[1].prop = "fail1"

\* C16: whenever a decrypt call is issued the parameters declare one store
\* handle, the handle the provider is given is the one this call opened, and
\* it is not closed yet; no native call is given the store handle after the
\* close.
C16_DecryptUsesOpenStore ==
  /\ \A i \in DecryptCalls :
       /\ para.cCertStore = 1
       /\ OpenedStore
       /\ calls[i].h = calls[1].res
       /\ \A j \in CloseCalls : i < j
  /\ \A j \in CloseCalls : \A i \in (j + 1)..Len(calls) : calls[i].h # calls[j].h

\* The fill calls of decryptDataWithCert: the decrypt calls given a buffer.
FillCalls == DecryptCalls \ SizeQueries

\* C17: the fill call is issued only after a size query that succeeded with a
\* size n > 0, with a buffer of n bytes; when it succeeds with a final length
\* m <= n, decryptDataWithCert returns the first m bytes of that buffer.
C17_TruncatedToReportedLength ==
  \A i \in FillCalls :
     /\ \E j \in SizeQueries :
          /\ j < i
          /\ DecryptCalls = {j, i}
          /\ calls[j].err = ErrNil
          /\ calls[j].res > 0
          /\ calls[i].arg = calls[j].res
     /\ Len(buffer) = calls[i].arg
     /\ (calls[i].err = ErrNil /\ calls[i].res <= calls[i].arg) =>
          /\ ~decryptedBytes.nil
          /\ Len(decryptedBytes.val) = calls[i].res
          /\ \A t \in 1..calls[i].res : decryptedBytes.val[t] = buffer[t]

\* A buffer of two bytes was filled and one byte is returned.
C17_Witness ==
  /\ pc = "unmarshal"
  /\ Len(buffer) = 2
  /\ \E i \in FillCalls : calls[i].err = ErrNil /\ calls[i].res = 1
  /\ Len(decryptedBytes.val) = 1

\* C18: the first enumeration call is given the nil cursor and every later one
\* the entry the enumeration call before it returned, after a mismatch and
\* after a skipped thumbprint computation alike.
C18_CursorDiscipline ==
  /\ Len(EnumSeq) >= 1 => EnumSeq[1].arg = 0
  /\ \A i \in 2..Len(EnumSeq) : EnumSeq[i].arg = EnumSeq[i - 1].res
  /\ pc = "enum" =>
       prevContext = (IF Len(EnumSeq) = 0 THEN 0 ELSE EnumSeq[Len(EnumSeq)].res)

\* Three enumeration calls were made, the first entry skipped and the second
\* not matching.
C18_Witness ==
  /\ Len(EnumSeq) = 3
  /\ EnumSeq[3].arg = 2
  /\ store[1].prop = "zero"
  /\ store[2].prop = "ok"

\* C19: once the certificate is found DecryptProtectedSettings ends by
\* returning a mapping or an error value, for every ciphertext, the one of no
\* bytes included; it does not end by a panic.
C19_NoAbnormalEnd ==
  (pc = "done" /\ found) => (ret.err # "panic" /\ Cardinality(CloseCalls) = 1)

\* C20: when DecryptProtectedSettings has returned, no certificate context
\* obtained by the enumeration is still held.
C20_NoContextHeld ==
  (pc = "done" /\ ret.err # "panic") => live = {}

====
